---- MODULE Spec2Model ----
(***************************************************************************)
(* Booking-and-availability core of the hotel management application:      *)
(* DateService, RoomService, BookingService and the parts of               *)
(* DatabaseService they use.  Dates are day ordinals counted from          *)
(* 2024-01-01 (ordinal 0); the strings DateService.to_string produces are  *)
(* modelled as <<year, month, day>> triples, ordered as SQLite orders the  *)
(* 'YYYY-MM-DD' texts (field by field, left to right).                     *)
(***************************************************************************)
EXTENDS Integers, Sequences, FiniteSets, TLC

VARIABLES
    room_types,   \* table room_types: room_type -> [price, capacity]
    customers,    \* table customers: sequence of rows, id = position
    bookings,     \* table bookings
    payments,     \* table payments
    today,        \* the value date.today() returns
    observers,    \* BookingService.observers
    nCalls,       \* number of process_booking calls made so far
    last,         \* the last service call: its inputs and what it did
    probe,        \* one evaluation of the overlap predicate on two date ranges
    records_observers,  \* RecordsService.observers
    strategy,     \* RecordsService.strategy
    attachedBefore,     \* per service: the pairs <<a, b>> of attached observers
                        \* with a attached before b
    note,         \* the last notification or function evaluation and its result
    connection_pool,    \* DatabaseService._connection_pool: the idle connections
    connections,  \* every connection opened so far: "open" or "closed"
    held          \* the connections yielded to with-blocks that are still running,
                  \* innermost last

vars == <<room_types, customers, bookings, payments, today, observers, nCalls, last, probe,
          records_observers, strategy, attachedBefore, note,
          connection_pool, connections, held>>

poolVars == <<connection_pool, connections, held>>

\* What the booking calls and the overlap evaluation leave alone
recordsVars == <<records_observers, strategy, attachedBefore, note, poolVars>>

----------------------------------------------------------------------------
(* Bounds *)

FirstDay == 29          \* first day of the modelled window: 2024-01-30
NumDays == 4            \* days in the window (it spans the month boundary)
ProbeDays == 6          \* days the overlap predicate is evaluated over
MaxCalls == 2           \* process_booking calls in one behaviour
MaxFaults == 1          \* persistence faults injected into one call
SingleCapacity == 1     \* room_types.capacity of 'Single'
DoubleCapacity == 2     \* room_types.capacity of 'Double'
StayProbeDays == 33     \* validate_dates is evaluated on the days FirstDay .. FirstDay + StayProbeDays
BillDays == 31          \* bills are computed for stays within FirstDay .. FirstDay + BillDays
RecordDays == 2         \* stored bookings lie within FirstDay + 1 .. FirstDay + RecordDays
MaxRows == 2            \* booking rows in the store the records are loaded from
MaxNested == 6          \* with-blocks of get_connection open at the same time
MaxConnections == 7     \* connections opened in one behaviour

\* The capacity column is data of the room_types table (seeded with 20 and
\* open to change); it is kept small here so that a room type fills up
\* within MaxCalls bookings.

(* Program constants *)

MaxStayDays == 30
TaxPercent == 18
ServicePercent == 10
SinglePrice == 100
DoublePrice == 150
SuitePrice == 250
FamilyPrice == 300
SeedCapacity == 20
MAX_POOL_SIZE == 5

NoDate == -1            \* Python None in a date field
NoId == 0               \* Python None where a row id is expected

Days == FirstDay .. (FirstDay + NumDays - 1)

SelectRoomType == "Select Room Type"

----------------------------------------------------------------------------
(* DateService *)

MonthLen == <<31, 29, 31, 30, 31, 30, 31, 31, 30, 31, 30, 31>>

RECURSIVE strftime(_, _)
strftime(n, m) ==
    IF m < 12 /\ n >= MonthLen[m]
    THEN strftime(n - MonthLen[m], m + 1)
    ELSE <<2024, m, n + 1>>

\* DateService.to_string: formats a date; anything else raises ValueError
ValueError == <<"ValueError">>

to_string(date_obj) ==
    IF date_obj = NoDate THEN ValueError ELSE strftime(date_obj, 1)

\* DateService.parse_date on a text to_string produced
parse_date(date_str) == CHOOSE n \in Days : to_string(n) = date_str

\* SQLite's comparison of two 'YYYY-MM-DD' texts
TextLT(a, b) ==
    \/ a[1] < b[1]
    \/ a[1] = b[1] /\ a[2] < b[2]
    \/ a[1] = b[1] /\ a[2] = b[2] /\ a[3] < b[3]

TextLE(a, b) == a = b \/ TextLT(a, b)

\* Faulty variant: no limit on the length of the stay
validate_dates_no_max(checkin, checkout, now) ==
    IF checkin = NoDate THEN "Date validation error"
    ELSE IF checkin < now THEN "Check-in date cannot be in the past"
    ELSE IF checkout = NoDate THEN "Date validation error"
    ELSE IF checkout <= checkin THEN "Check-out date must be after check-in date"
    ELSE ""

\* Faulty variant: a stay of MaxStayDays nights is already too long
validate_dates_max_exclusive(checkin, checkout, now) ==
    IF checkin = NoDate
    THEN "Date validation error"
    ELSE IF checkin < now
    THEN "Check-in date cannot be in the past"
    ELSE IF checkout = NoDate
    THEN "Date validation error"
    ELSE IF checkout <= checkin
    THEN "Check-out date must be after check-in date"
    ELSE IF checkout - checkin >= MaxStayDays
    THEN "Maximum stay is 30 days"
    ELSE ""

\* Faulty variant: the check-out rule is tried before the past-check-in rule
validate_dates_checkout_first(checkin, checkout, now) ==
    IF checkin = NoDate \/ checkout = NoDate
    THEN "Date validation error"
    ELSE IF checkout <= checkin
    THEN "Check-out date must be after check-in date"
    ELSE IF checkin < now
    THEN "Check-in date cannot be in the past"
    ELSE IF checkout - checkin > MaxStayDays
    THEN "Maximum stay is 30 days"
    ELSE ""

\* DateService.validate_dates: "" when valid, else the message.  Comparing
\* None with a date raises TypeError, which the method turns into
\* "Date validation error: ..."; the comparison of the check-in date comes
\* first, so a past check-in is reported before an absent check-out is met.
validate_dates(checkin, checkout, now) ==
    IF checkin = NoDate
    THEN "Date validation error"
    ELSE IF checkin < now
    THEN "Check-in date cannot be in the past"
    ELSE IF checkout = NoDate
    THEN "Date validation error"
    ELSE IF checkout <= checkin
    THEN "Check-out date must be after check-in date"
    ELSE IF checkout - checkin > MaxStayDays
    THEN "Maximum stay is 30 days"
    ELSE ""

----------------------------------------------------------------------------
(* DatabaseService *)

\* Outcome of one statement: it runs ("ok"), sqlite3 raises inside the
\* statement and the service swallows it ("sqlerr"), or the connection
\* cannot be obtained and the exception propagates ("raise").
Kinds == {"ok", "sqlerr", "raise"}

Stages == {"capacity", "count", "customer", "booking", "price", "payment"}

FaultVectors ==
    {f \in [Stages -> Kinds] : Cardinality({s \in Stages : f[s] # "ok"}) <= MaxFaults}

NoFaults == [s \in Stages |-> "ok"]

\* The fault vectors of a call that only reads
ReadFaultVectors ==
    {f \in FaultVectors : \A s \in Stages \ {"capacity", "count"} : f[s] = "ok"}

\* DatabaseService.get_connection up to its yield: the connection the
\* with-block gets, popped from the end of the pool or newly opened; NoId
\* when sqlite3.connect raises
get_connection(pool, conns, connects) ==
    IF pool # <<>>
    THEN [connection |-> pool[Len(pool)], pool |-> SubSeq(pool, 1, Len(pool) - 1),
          connections |-> conns]
    ELSE IF connects
    THEN [connection |-> Len(conns) + 1, pool |-> pool,
          connections |-> Append(conns, "open")]
    ELSE [connection |-> NoId, pool |-> pool, connections |-> conns]

\* Faulty variant: a connection is closed on an exception and still put
\* back into the pool
get_connection_exit_keeps_closed(pool, conns, connection, kind) ==
    IF kind = "raise"
    THEN [pool |-> IF Len(pool) < MAX_POOL_SIZE THEN Append(pool, connection) ELSE pool,
          connections |-> [conns EXCEPT ![connection] = "closed"]]
    ELSE IF Len(pool) < MAX_POOL_SIZE
    THEN [pool |-> Append(pool, connection), connections |-> conns]
    ELSE [pool |-> pool, connections |-> [conns EXCEPT ![connection] = "closed"]]

\* DatabaseService.get_connection after its yield.  kind "ok": the
\* with-block ended normally; "sqlerr": it caught a sqlite3.Error and ended
\* normally; "raise": an exception left it and is thrown into the generator
get_connection_exit(pool, conns, connection, kind) ==
    IF kind = "raise"
    THEN [pool |-> pool, connections |-> [conns EXCEPT ![connection] = "closed"]]
    ELSE IF Len(pool) < MAX_POOL_SIZE
    THEN [pool |-> Append(pool, connection), connections |-> conns]
    ELSE [pool |-> pool, connections |-> [conns EXCEPT ![connection] = "closed"]]

\* The pool once DatabaseService is constructed: _create_tables has run its
\* statements one after the other on one connection, which is back in the
\* pool
InitPool ==
    /\ connection_pool = <<1>>
    /\ connections = <<"open">>
    /\ held = <<>>

\* Faulty variant: the insert is skipped when the table already holds a row
\* with the same column values, and that row's id is returned
execute_query_dedup(table, row, notnull, kind) ==
    IF kind = "raise"
    THEN [table |-> table, lastrowid |-> NoId, raised |-> TRUE, done |-> "raise"]
    ELSE IF kind = "sqlerr" \/ ~notnull
    THEN [table |-> table, lastrowid |-> NoId, raised |-> FALSE, done |-> "sqlerr"]
    ELSE IF \E i \in 1..Len(table) : [table[i] EXCEPT !.id = NoId] = row
    THEN [table |-> table,
          lastrowid |-> CHOOSE i \in 1..Len(table) : [table[i] EXCEPT !.id = NoId] = row,
          raised |-> FALSE, done |-> "ok"]
    ELSE [table |-> Append(table, [row EXCEPT !.id = Len(table) + 1]),
          lastrowid |-> Len(table) + 1, raised |-> FALSE, done |-> "ok"]

\* Faulty variant: the insert overwrites the latest row of the table
execute_query_replace(table, row, notnull, kind) ==
    IF kind = "raise"
    THEN [table |-> table, lastrowid |-> NoId, raised |-> TRUE, done |-> "raise"]
    ELSE IF kind = "sqlerr" \/ ~notnull
    THEN [table |-> table, lastrowid |-> NoId, raised |-> FALSE, done |-> "sqlerr"]
    ELSE IF table = <<>>
    THEN [table |-> <<[row EXCEPT !.id = 1]>>,
          lastrowid |-> 1, raised |-> FALSE, done |-> "ok"]
    ELSE [table |-> [table EXCEPT ![Len(table)] = [row EXCEPT !.id = Len(table)]],
          lastrowid |-> Len(table), raised |-> FALSE, done |-> "ok"]

\* Faulty variant: the NOT NULL constraints of the tables are not enforced
execute_query_nullable(table, row, notnull, kind) ==
    IF kind = "raise"
    THEN [table |-> table, lastrowid |-> NoId, raised |-> TRUE, done |-> "raise"]
    ELSE IF kind = "sqlerr"
    THEN [table |-> table, lastrowid |-> NoId, raised |-> FALSE, done |-> "sqlerr"]
    ELSE [table |-> Append(table, [row EXCEPT !.id = Len(table) + 1]),
          lastrowid |-> Len(table) + 1, raised |-> FALSE, done |-> "ok"]

\* DatabaseService.execute_query for an INSERT: the table afterwards, the
\* value returned (cursor.lastrowid, or None) and whether an exception left
\* the call.  notnull: no NOT NULL column of the row is None.
execute_query(table, row, notnull, kind) ==
    IF kind = "raise"
    THEN [table |-> table, lastrowid |-> NoId, raised |-> TRUE, done |-> "raise"]
    ELSE IF kind = "sqlerr" \/ ~notnull
    THEN [table |-> table, lastrowid |-> NoId, raised |-> FALSE, done |-> "sqlerr"]
    ELSE [table |-> Append(table, [row EXCEPT !.id = Len(table) + 1]),
          lastrowid |-> Len(table) + 1, raised |-> FALSE, done |-> "ok"]

----------------------------------------------------------------------------
(* RoomService *)

\* Faulty variant: a room type without a row is given one room
get_room_capacity_default(rt, room_type, kind) ==
    IF kind # "ok" THEN -1
    ELSE IF room_type \notin DOMAIN rt THEN 1
    ELSE rt[room_type].capacity

\* RoomService.get_room_capacity: the capacity, or -1 when it raises
get_room_capacity(rt, room_type, kind) ==
    IF kind # "ok" \/ room_type \notin DOMAIN rt
    THEN -1
    ELSE rt[room_type].capacity

\* Faulty variant: a room type without a row is priced at nothing
get_room_price_default(rt, room_type, kind) ==
    IF kind # "ok" THEN -1
    ELSE IF room_type \notin DOMAIN rt THEN 0
    ELSE rt[room_type].price

\* RoomService.get_room_price: the price, or -1 when it raises
get_room_price(rt, room_type, kind) ==
    IF kind # "ok" \/ room_type \notin DOMAIN rt
    THEN -1
    ELSE rt[room_type].price

\* Faulty variant: first clause closed at the stored checkout
OverlapsClosedAtCheckout(b_checkin, b_checkout, checkin_str, checkout_str) ==
    \/ TextLE(b_checkin, checkin_str) /\ TextLE(checkin_str, b_checkout)
    \/ TextLT(b_checkin, checkout_str) /\ TextLE(checkout_str, b_checkout)
    \/ TextLE(checkin_str, b_checkin) /\ TextLE(b_checkout, checkout_str)

\* Faulty variant: second clause closed at the stored check-in
OverlapsClosedAtCheckin(b_checkin, b_checkout, checkin_str, checkout_str) ==
    \/ TextLE(b_checkin, checkin_str) /\ TextLT(checkin_str, b_checkout)
    \/ TextLE(b_checkin, checkout_str) /\ TextLE(checkout_str, b_checkout)
    \/ TextLE(checkin_str, b_checkin) /\ TextLE(b_checkout, checkout_str)

\* Faulty variant: the clause for a stored range inside the requested one
\* is left out
OverlapsTwoClauses(b_checkin, b_checkout, checkin_str, checkout_str) ==
    \/ TextLE(b_checkin, checkin_str) /\ TextLT(checkin_str, b_checkout)
    \/ TextLT(b_checkin, checkout_str) /\ TextLE(checkout_str, b_checkout)

\* The WHERE clause of the overlap query on one bookings row
Overlaps(b_checkin, b_checkout, checkin_str, checkout_str) ==
    \/ TextLE(b_checkin, checkin_str) /\ TextLT(checkin_str, b_checkout)
    \/ TextLT(b_checkin, checkout_str) /\ TextLE(checkout_str, b_checkout)
    \/ TextLE(checkin_str, b_checkin) /\ TextLE(b_checkout, checkout_str)

\* Faulty variant: the query without its room_type condition
OverlappingBookingsAnyType(bk, room_type, checkin_str, checkout_str) ==
    {i \in 1..Len(bk) :
        /\ bk[i].status = "active"
        /\ Overlaps(bk[i].checkin_date, bk[i].checkout_date, checkin_str, checkout_str)}

\* The ids of the rows the overlap query counts
OverlappingBookings(bk, room_type, checkin_str, checkout_str) ==
    {i \in 1..Len(bk) :
        /\ bk[i].room_type = room_type
        /\ bk[i].status = "active"
        /\ Overlaps(bk[i].checkin_date, bk[i].checkout_date, checkin_str, checkout_str)}

\* Faulty variant: a full room type still counts as available
HasFreeCapacityInclusive(current_bookings, capacity) == current_bookings <= capacity

\* The last comparison of is_room_available
HasFreeCapacity(current_bookings, capacity) == current_bookings < capacity

\* RoomService.is_room_available
is_room_available(rt, bk, room_type, checkin, checkout, now, f) ==
    LET checkin_str == to_string(checkin)
        checkout_str == to_string(checkout)
        capacity == get_room_capacity(rt, room_type, f["capacity"])
    IN  IF checkin_str = ValueError \/ checkout_str = ValueError THEN FALSE
        ELSE IF validate_dates(checkin, checkout, now) # "" THEN FALSE
        ELSE IF capacity = -1 THEN FALSE
        ELSE IF f["count"] # "ok" THEN FALSE
        ELSE HasFreeCapacity(
                Cardinality(OverlappingBookings(bk, room_type, checkin_str, checkout_str)),
                capacity)

\* Faulty variant: the tax is taken on the room charge plus service charge
calculate_total_bill_tax_on_service(rt, room_type, checkin, checkout, kind) ==
    LET price_per_night == get_room_price(rt, room_type, kind)
        nights == checkout - checkin
        room_charge == price_per_night * nights
        service_charge == (room_charge * ServicePercent) \div 100
        tax == ((room_charge + service_charge) * TaxPercent) \div 100
    IN  IF price_per_night = -1
        THEN [raised |-> TRUE, price_per_night |-> 0, nights |-> 0, room_charge |-> 0,
              tax |-> 0, service_charge |-> 0, total |-> 0]
        ELSE [raised |-> FALSE, price_per_night |-> price_per_night, nights |-> nights,
              room_charge |-> room_charge, tax |-> tax,
              service_charge |-> service_charge,
              total |-> room_charge + tax + service_charge]

\* Faulty variant: the service charge is left out of the total
calculate_total_bill_no_service(rt, room_type, checkin, checkout, kind) ==
    LET price_per_night == get_room_price(rt, room_type, kind)
        nights == checkout - checkin
        room_charge == price_per_night * nights
        tax == (room_charge * TaxPercent) \div 100
        service_charge == (room_charge * ServicePercent) \div 100
    IN  IF price_per_night = -1
        THEN [raised |-> TRUE, price_per_night |-> 0, nights |-> 0, room_charge |-> 0,
              tax |-> 0, service_charge |-> 0, total |-> 0]
        ELSE [raised |-> FALSE, price_per_night |-> price_per_night, nights |-> nights,
              room_charge |-> room_charge, tax |-> tax,
              service_charge |-> service_charge,
              total |-> room_charge + tax]

\* RoomService.calculate_total_bill (amounts in whole currency units);
\* raised: get_room_price raised and the exception is re-raised
calculate_total_bill(rt, room_type, checkin, checkout, kind) ==
    LET price_per_night == get_room_price(rt, room_type, kind)
        nights == checkout - checkin
        room_charge == price_per_night * nights
        tax == (room_charge * TaxPercent) \div 100
        service_charge == (room_charge * ServicePercent) \div 100
    IN  IF price_per_night = -1
        THEN [raised |-> TRUE, price_per_night |-> 0, nights |-> 0, room_charge |-> 0,
              tax |-> 0, service_charge |-> 0, total |-> 0]
        ELSE [raised |-> FALSE, price_per_night |-> price_per_night, nights |-> nights,
              room_charge |-> room_charge, tax |-> tax,
              service_charge |-> service_charge,
              total |-> room_charge + tax + service_charge]

----------------------------------------------------------------------------
(* BookingService *)

\* The observers of the application: the BookingWindow that owns the service
ObserverIds == {"window"}

\* BookingWindow.on_booking_success ends in self.destroy(), which detaches
\* the window from its booking service.
DetachesOnSuccess(o) == o = "window"

\* list.remove: drops the first occurrence
RECURSIVE Remove(_, _)
Remove(seq, o) ==
    IF seq = <<>> THEN <<>>
    ELSE IF Head(seq) = o THEN Tail(seq)
    ELSE <<Head(seq)>> \o Remove(Tail(seq), o)

\* The for loop of notify_success / notify_error over the live list:
\* position i of the list as it is now, then i + 1
RECURSIVE notify(_, _, _, _, _)
notify(obs, i, callback, message, delivered) ==
    IF i > Len(obs)
    THEN [observers |-> obs, delivered |-> delivered]
    ELSE notify(
            IF callback = "on_booking_success" /\ DetachesOnSuccess(obs[i])
            THEN Remove(obs, obs[i]) ELSE obs,
            i + 1, callback, message,
            Append(delivered, <<obs[i], callback, message>>))

\* RequiredFieldsValidation.validate
RequiredFieldsValidation(d) ==
    IF d.name = "" THEN "Name is required!"
    ELSE IF d.phone = "" THEN "Phone Number is required!"
    ELSE IF d.address = "" THEN "Address is required!"
    ELSE IF d.room_type = "" THEN "Room Type is required!"
    ELSE IF d.room_type = SelectRoomType THEN "Please select a room type!"
    ELSE ""

\* DateValidation.validate
DateValidation(d) ==
    IF d.checkin_date = NoDate \/ d.checkout_date = NoDate
    THEN "Check-in and Check-out dates are required!"
    ELSE IF d.checkout_date <= d.checkin_date
    THEN "Check-out date must be after check-in date!"
    ELSE ""

\* BookingService.validate_booking_data: "" for None
validate_booking_data(d, now) ==
    IF d.name = "" THEN "Name is required"
    ELSE IF d.phone = "" THEN "Phone is required"
    ELSE IF d.address = "" THEN "Address is required"
    ELSE IF d.room_type = "" THEN "Room Type is required"
    ELSE IF d.checkin_date = NoDate THEN "Checkin Date is required"
    ELSE IF d.checkout_date = NoDate THEN "Checkout Date is required"
    ELSE validate_dates(d.checkin_date, d.checkout_date, now)

\* The checks of process_booking that precede the availability check, in
\* the order the method runs them: the message notified, "" when all pass
Validation(d, now) ==
    IF validate_booking_data(d, now) # "" THEN validate_booking_data(d, now)
    ELSE IF RequiredFieldsValidation(d) # "" THEN RequiredFieldsValidation(d)
    ELSE DateValidation(d)

RoomNotAvailable == "Selected room is not available for these dates!"
AnErrorOccurred == "An error occurred"

\* Step 4 of process_booking: the three inserts around the bill
\* computation; the first exception that leaves a statement ends the
\* sequence.
Inserts(rt, cu, bk, pa, d, f) ==
    LET c == execute_query(cu,
                [id |-> NoId, name |-> d.name, phone |-> d.phone, address |-> d.address],
                TRUE, f["customer"])
        customer_id == c.lastrowid
        b == IF c.raised
             THEN [table |-> bk, lastrowid |-> NoId, raised |-> TRUE, done |-> "skipped"]
             ELSE execute_query(bk,
                    [id |-> NoId, customer_id |-> customer_id, room_type |-> d.room_type,
                     checkin_date |-> to_string(d.checkin_date),
                     checkout_date |-> to_string(d.checkout_date),
                     status |-> "active"],
                    customer_id # NoId, f["booking"])
        bill == calculate_total_bill(rt, d.room_type, d.checkin_date, d.checkout_date,
                                     f["price"])
        p == IF b.raised \/ bill.raised
             THEN [table |-> pa, lastrowid |-> NoId, raised |-> TRUE, done |-> "skipped"]
             ELSE execute_query(pa,
                    [id |-> NoId, booking_id |-> b.lastrowid, amount |-> bill.total,
                     payment_method |-> "pending", status |-> "pending"],
                    b.lastrowid # NoId, f["payment"])
    IN  [customers |-> c.table,
         bookings |-> b.table, payments |-> p.table,
         customer_id |-> customer_id, booking_id |-> b.lastrowid,
         payment_id |-> p.lastrowid,
         writes |-> [customer |-> c.done, booking |-> b.done, payment |-> p.done],
         raised |-> p.raised]

\* The same sequence inside one transaction that is rolled back unless all
\* three inserts ran
PersistAtomic(rt, cu, bk, pa, d, f) ==
    LET w == Inserts(rt, cu, bk, pa, d, f)
    IN  IF w.writes.customer = "ok" /\ w.writes.booking = "ok" /\ w.writes.payment = "ok"
        THEN w
        ELSE [w EXCEPT !.customers = cu, !.bookings = bk, !.payments = pa]

\* The store after step 4: execute_query commits every statement on its
\* own, so the rows written before a failure stay
Persist(rt, cu, bk, pa, d, f) == Inserts(rt, cu, bk, pa, d, f)

\* The form a BookingWindow submits with every field filled in
\* The date pairs the callers pass: the check-out day is the check-in day
\* or a later one, and the check-in day may lie before today
DateRanges == {dd \in Days \X Days : dd[1] <= dd[2]}

CompleteForms ==
    {d \in [name : {"Ann"}, phone : {"555"}, address : {"Giza"},
            room_type : {SelectRoomType, "Single", "Double", "Penthouse"},
            checkin_date : Days, checkout_date : Days] :
        <<d.checkin_date, d.checkout_date>> \in DateRanges}

FilledForm ==
    [name |-> "Ann", phone |-> "555", address |-> "Giza", room_type |-> "Single",
     checkin_date |-> FirstDay + 2, checkout_date |-> FirstDay + 3]

NoData ==
    [name |-> "", phone |-> "", address |-> "", room_type |-> "",
     checkin_date |-> NoDate, checkout_date |-> NoDate]

\* Forms with a field left empty or absent
IncompleteForms ==
    {[FilledForm EXCEPT !.name = ""], [FilledForm EXCEPT !.phone = ""],
     [FilledForm EXCEPT !.address = ""], [FilledForm EXCEPT !.room_type = ""],
     [FilledForm EXCEPT !.checkin_date = NoDate],
     [FilledForm EXCEPT !.checkout_date = NoDate],
     [FilledForm EXCEPT !.phone = "", !.room_type = SelectRoomType],
     [FilledForm EXCEPT !.room_type = SelectRoomType, !.checkout_date = NoDate],
     NoData}

BookingData == CompleteForms \cup IncompleteForms

NoWrites == [customer |-> "skipped", booking |-> "skipped", payment |-> "skipped"]

\* The record of the call that has just returned; NoCall when the last step
\* was not a call
NoCall ==
    [op |-> "none", data |-> NoData, now |-> NoDate, validation |-> "",
     checked |-> FALSE, available |-> FALSE, counted |-> {}, reads |-> "skipped",
     writes |-> NoWrites, customer_id |-> NoId, booking_id |-> NoId,
     payment_id |-> NoId, outcome |-> "none", message |-> "",
     attached |-> <<>>, delivered |-> <<>>,
     before |-> [customers |-> 0, bookings |-> 0, payments |-> 0]]

\* How far is_room_available got: "skipped" when it returned before the
\* lookups, "failed" when a lookup failed, "unknown" when room_types has no
\* such row, "ok" when the overlap query returned its count
Reads(d, now, f) ==
    IF to_string(d.checkin_date) = ValueError \/ to_string(d.checkout_date) = ValueError
       \/ validate_dates(d.checkin_date, d.checkout_date, now) # ""
    THEN "skipped"
    ELSE IF f["capacity"] # "ok" THEN "failed"
    ELSE IF d.room_type \notin DOMAIN room_types THEN "unknown"
    ELSE IF f["count"] # "ok" THEN "failed"
    ELSE "ok"

\* The rows the overlap query counted, when it ran
Counted(d, now, f) ==
    IF Reads(d, now, f) = "ok"
    THEN OverlappingBookings(bookings, d.room_type,
                             to_string(d.checkin_date), to_string(d.checkout_date))
    ELSE {}

\* The statements of is_room_available that run: none when the dates are
\* refused, the capacity lookup alone when it fails or finds no row
ReadStages(d, now, f) ==
    IF Reads(d, now, f) = "skipped" THEN {}
    ELSE IF f["capacity"] # "ok" \/ d.room_type \notin DOMAIN room_types
    THEN {"capacity"}
    ELSE {"capacity", "count"}

\* The statements of step 4 that run: an exception ends the step
WriteStages(d, f) ==
    LET w == Inserts(room_types, customers, bookings, payments, d, f)
    IN  {"customer"}
        \cup (IF w.writes.booking # "skipped" THEN {"booking"} ELSE {})
        \cup (IF w.writes.booking \in {"ok", "sqlerr"} THEN {"price"} ELSE {})
        \cup (IF w.writes.payment # "skipped" THEN {"payment"} ELSE {})

\* A statement fails only if it runs
FaultsReached(f, stages) == \A s \in Stages : f[s] # "ok" => s \in stages

Sizes == [customers |-> Len(customers), bookings |-> Len(bookings),
          payments |-> Len(payments)]

NoProbe == [evaluated |-> FALSE, existing |-> <<NoDate, NoDate>>,
            requested |-> <<NoDate, NoDate>>, overlaps |-> FALSE, swapped |-> FALSE]

\* No observer is attached to either service
NoOrder == [booking |-> {}, records |-> {}]

NoNote == [op |-> "none"]

----------------------------------------------------------------------------
(* The state machine *)

Init ==
    /\ room_types = [r \in {"Single", "Double"} |->
                        IF r = "Single"
                        THEN [price |-> SinglePrice, capacity |-> SingleCapacity]
                        ELSE [price |-> DoublePrice, capacity |-> DoubleCapacity]]
    /\ customers = <<>>
    /\ bookings = <<>>
    /\ payments = <<>>
    /\ today = FirstDay + 1
    /\ observers = <<"window">>
    /\ nCalls = 0
    /\ last = NoCall
    /\ probe = NoProbe
    /\ records_observers = <<>>
    /\ strategy = "all"
    /\ attachedBefore = NoOrder
    /\ note = NoNote
    /\ InitPool

\* Faulty variant: the customer row is written before the request is checked
RejectAfterInsert(d, f, message, checked) ==
    LET n == notify(observers, 1, "on_booking_error", message, <<>>)
    IN  /\ observers' = n.observers
        /\ last' = [NoCall EXCEPT !.op = "process_booking", !.data = d, !.now = today,
                        !.validation = Validation(d, today),
                        !.checked = checked,
                        !.counted = IF checked THEN Counted(d, today, f) ELSE {},
                        !.reads = IF checked THEN Reads(d, today, f) ELSE "skipped",
                        !.outcome = "error", !.message = message,
                        !.attached = observers, !.delivered = n.delivered,
                        !.before = Sizes]
        /\ customers' = Append(customers,
                [id |-> Len(customers) + 1, name |-> d.name, phone |-> d.phone,
                 address |-> d.address])
        /\ UNCHANGED <<bookings, payments>>

\* BookingService.process_booking rejecting the request before step 4
Reject(d, f, message, checked) ==
    LET n == notify(observers, 1, "on_booking_error", message, <<>>)
    IN  /\ observers' = n.observers
        /\ last' = [NoCall EXCEPT !.op = "process_booking", !.data = d, !.now = today,
                        !.validation = Validation(d, today),
                        !.checked = checked,
                        !.counted = IF checked THEN Counted(d, today, f) ELSE {},
                        !.reads = IF checked THEN Reads(d, today, f) ELSE "skipped",
                        !.outcome = "error", !.message = message,
                        !.attached = observers, !.delivered = n.delivered,
                        !.before = Sizes]
        /\ UNCHANGED <<customers, bookings, payments>>

\* BookingService.process_booking reaching step 4
Book(d, f) ==
    LET w == Persist(room_types, customers, bookings, payments, d, f)
        n == IF w.raised
             THEN notify(observers, 1, "on_booking_error", AnErrorOccurred, <<>>)
             ELSE notify(observers, 1, "on_booking_success", "", <<>>)
    IN  /\ customers' = w.customers
        /\ bookings' = w.bookings
        /\ payments' = w.payments
        /\ observers' = n.observers
        /\ last' = [NoCall EXCEPT !.op = "process_booking", !.data = d, !.now = today,
                        !.checked = TRUE, !.available = TRUE,
                        !.counted = Counted(d, today, f),
                        !.reads = "ok", !.writes = w.writes,
                        !.customer_id = w.customer_id, !.booking_id = w.booking_id,
                        !.payment_id = w.payment_id,
                        !.outcome = IF w.raised THEN "error" ELSE "success",
                        !.message = IF w.raised THEN AnErrorOccurred ELSE "",
                        !.attached = observers, !.delivered = n.delivered,
                        !.before = Sizes]

\* BookingService.process_booking on the form d, the statements that run
\* failing as one of the vectors of faults
process_booking(d, faults) ==
    IF Validation(d, today) # ""
    THEN Reject(d, NoFaults, Validation(d, today), FALSE)
    ELSE \E f \in faults :
            IF is_room_available(room_types, bookings, d.room_type,
                                 d.checkin_date, d.checkout_date, today, f)
            THEN /\ FaultsReached(f, ReadStages(d, today, f) \cup WriteStages(d, f))
                 /\ Book(d, f)
            ELSE /\ FaultsReached(f, ReadStages(d, today, f))
                 /\ Reject(d, f, RoomNotAvailable, TRUE)

\* BookingService.process_booking, called by BookingWindow.book_room: the
\* window is open, so it is attached to its service
ProcessBooking ==
    /\ last = NoCall
    /\ observers # <<>>
    /\ nCalls < MaxCalls
    /\ nCalls' = nCalls + 1
    /\ UNCHANGED <<room_types, today, probe>>
    /\ UNCHANGED recordsVars
    /\ \E d \in BookingData : process_booking(d, FaultVectors)

\* RoomService.is_room_available called on its own (explored, like
\* process_booking, while fewer than MaxCalls bookings were submitted)
IsRoomAvailable ==
    /\ last = NoCall
    /\ note = NoNote
    /\ nCalls < MaxCalls
    /\ \E room_type \in {"Single", "Double", "Penthouse"},
          dates \in DateRanges \cup {<<NoDate, NoDate>>},
          f \in ReadFaultVectors :
        LET checkin == dates[1]
            checkout == dates[2]
            d == [NoData EXCEPT !.room_type = room_type, !.checkin_date = checkin,
                                !.checkout_date = checkout]
        IN  /\ FaultsReached(f, ReadStages(d, today, f))
            /\ last' = [NoCall EXCEPT !.op = "is_room_available", !.data = d,
                            !.now = today, !.checked = TRUE,
                            !.available = is_room_available(room_types, bookings,
                                              room_type, checkin, checkout, today, f),
                            !.counted = Counted(d, today, f),
                            !.reads = Reads(d, today, f),
                            !.before = Sizes]
    /\ UNCHANGED <<room_types, customers, bookings, payments, today, observers, nCalls, probe>>
    /\ UNCHANGED recordsVars

\* The call returns to the event loop
Return ==
    /\ last # NoCall
    /\ last' = NoCall
    /\ UNCHANGED <<room_types, customers, bookings, payments, today, observers, nCalls, probe>>
    /\ UNCHANGED recordsVars

\* BookingService.attach; each observer attaches itself once
Attach ==
    /\ last = NoCall
    /\ \E o \in ObserverIds :
        /\ \A i \in 1..Len(observers) : observers[i] # o
        /\ observers' = Append(observers, o)
    /\ UNCHANGED <<room_types, customers, bookings, payments, today, nCalls, last, probe>>
    /\ UNCHANGED recordsVars

\* BookingService.detach
Detach ==
    /\ last = NoCall
    /\ \E i \in 1..Len(observers) : observers' = Remove(observers, observers[i])
    /\ UNCHANGED <<room_types, customers, bookings, payments, today, nCalls, last, probe>>
    /\ UNCHANGED recordsVars

Next == ProcessBooking \/ IsRoomAvailable \/ Return \/ Attach \/ Detach

Spec == Init /\ [][Next]_vars

\* The overlap predicate on its own: the WHERE clause applied to one stored
\* range and one requested range, both with checkout after check-in
ProbeRanges ==
    {r \in (FirstDay .. (FirstDay + ProbeDays - 1)) \X (FirstDay .. (FirstDay + ProbeDays - 1)) :
        r[1] < r[2]}

EvalOverlaps ==
    /\ \E e \in ProbeRanges, r \in ProbeRanges :
        probe' = [evaluated |-> TRUE, existing |-> e, requested |-> r,
                  overlaps |-> Overlaps(to_string(e[1]), to_string(e[2]),
                                        to_string(r[1]), to_string(r[2])),
                  swapped |-> Overlaps(to_string(r[1]), to_string(r[2]),
                                       to_string(e[1]), to_string(e[2]))]
    /\ UNCHANGED <<room_types, customers, bookings, payments, today, observers, nCalls, last>>
    /\ UNCHANGED recordsVars

NextOverlap == EvalOverlaps

SpecOverlap == Init /\ [][NextOverlap]_vars

----------------------------------------------------------------------------
(* The observer lists of BookingService and RecordsService *)

\* The observers that attach themselves in this specification; "window" is
\* a BookingWindow on the booking service and a RecordsWindow on the
\* records service
ObserverPool == {"window", "listener", "logger"}

\* Faulty variant: the new observer is put in front of the others
attach_front(obs, o) == <<o>> \o obs

\* BookingService.attach, RecordsService.attach: list.append
attach(obs, o) == Append(obs, o)

\* BookingService.detach, RecordsService.detach: list.remove
detach(obs, o) == Remove(obs, o)

\* RecordsService.notify: update(records) on each observer of the list;
\* RecordsWindow.update leaves the list alone
records_notify(obs, records) == [i \in 1..Len(obs) |-> <<obs[i], "update", records>>]

Attached(obs) == {obs[i] : i \in 1..Len(obs)}

\* The attachment order once o is attached after the observers of obs
OrderAfterAttach(order, obs, o) == order \cup {<<x, o>> : x \in Attached(obs)}

\* The attachment order of the observers that remain in obs
OrderOf(order, obs) == {pr \in order : pr[1] \in Attached(obs) /\ pr[2] \in Attached(obs)}

\* What the observer actions leave alone
storeVars == <<room_types, customers, bookings, payments, today, nCalls, last, probe,
               poolVars>>

InitObservers == Init

BookingAttach ==
    /\ note = NoNote
    /\ \E o \in ObserverPool \ Attached(observers) :
        /\ observers' = attach(observers, o)
        /\ attachedBefore' = [attachedBefore EXCEPT
                                !.booking = OrderAfterAttach(@, observers, o)]
    /\ UNCHANGED <<storeVars, records_observers, strategy, note>>

BookingDetach ==
    /\ note = NoNote
    /\ \E o \in Attached(observers) :
        /\ observers' = detach(observers, o)
        /\ attachedBefore' = [attachedBefore EXCEPT
                                !.booking = OrderOf(@, detach(observers, o))]
    /\ UNCHANGED <<storeVars, records_observers, strategy, note>>

RecordsAttach ==
    /\ note = NoNote
    /\ \E o \in ObserverPool \ Attached(records_observers) :
        /\ records_observers' = attach(records_observers, o)
        /\ attachedBefore' = [attachedBefore EXCEPT
                                !.records = OrderAfterAttach(@, records_observers, o)]
    /\ UNCHANGED <<storeVars, observers, strategy, note>>

RecordsDetach ==
    /\ note = NoNote
    /\ \E o \in Attached(records_observers) :
        /\ records_observers' = detach(records_observers, o)
        /\ attachedBefore' = [attachedBefore EXCEPT
                                !.records = OrderOf(@, detach(records_observers, o))]
    /\ UNCHANGED <<storeVars, observers, strategy, note>>

\* BookingService.notify_success and BookingService.notify_error
BookingNotify ==
    /\ note = NoNote
    /\ \E callback \in {"on_booking_success", "on_booking_error"} :
        LET n == notify(observers, 1, callback, "", <<>>)
        IN  /\ observers' = n.observers
            /\ attachedBefore' = [attachedBefore EXCEPT !.booking = OrderOf(@, n.observers)]
            /\ note' = [op |-> "notify", service |-> "booking", callback |-> callback,
                        attached |-> observers, before |-> attachedBefore.booking,
                        delivered |-> n.delivered]
    /\ UNCHANGED <<storeVars, records_observers, strategy>>

\* RecordsService.notify
RecordsNotify ==
    /\ note = NoNote
    /\ note' = [op |-> "notify", service |-> "records", callback |-> "update",
                attached |-> records_observers, before |-> attachedBefore.records,
                delivered |-> records_notify(records_observers, <<>>)]
    /\ UNCHANGED <<storeVars, observers, records_observers, strategy, attachedBefore>>

\* The notification, or the call that was evaluated, returns
NotifyReturn ==
    /\ note # NoNote
    /\ note' = NoNote
    /\ UNCHANGED <<storeVars, observers, records_observers, strategy, attachedBefore>>

NextObservers ==
    \/ BookingAttach \/ BookingDetach \/ RecordsAttach \/ RecordsDetach
    \/ BookingNotify \/ RecordsNotify \/ NotifyReturn

SpecObservers == InitObservers /\ [][NextObservers]_vars

----------------------------------------------------------------------------
(* DateService.validate_dates on its own *)

StayProbe == (FirstDay .. (FirstDay + StayProbeDays)) \cup {NoDate}

InitDates == Init

\* One call of DateService.validate_dates
ValidateDates ==
    /\ \E checkin \in StayProbe, checkout \in StayProbe :
        note' = [op |-> "validate_dates", checkin |-> checkin, checkout |-> checkout,
                 now |-> today, message |-> validate_dates(checkin, checkout, today)]
    /\ UNCHANGED <<storeVars, observers, records_observers, strategy, attachedBefore>>

NextDates == ValidateDates

SpecDates == InitDates /\ [][NextDates]_vars

----------------------------------------------------------------------------
(* BookingService.process_booking with stays of any length and with more
   than one observer *)

\* The observers attached to the booking service when the calls start: the
\* booking window alone, or the window and a second listener
ObserverLists == {<<"window">>, <<"window", "listener">>, <<"listener", "window">>}

\* Forms with every field filled in: check-in yesterday or today, check-out
\* any day of the probe window or absent
StayForms ==
    {[FilledForm EXCEPT !.checkin_date = checkin, !.checkout_date = checkout] :
        checkin \in {FirstDay, FirstDay + 1}, checkout \in StayProbe}

InitWorkflow ==
    /\ room_types = [r \in {"Single", "Double"} |->
                        IF r = "Single"
                        THEN [price |-> SinglePrice, capacity |-> SingleCapacity]
                        ELSE [price |-> DoublePrice, capacity |-> DoubleCapacity]]
    /\ customers = <<>>
    /\ bookings = <<>>
    /\ payments = <<>>
    /\ today = FirstDay + 1
    /\ observers \in ObserverLists
    /\ nCalls = 0
    /\ last = NoCall
    /\ probe = NoProbe
    /\ records_observers = <<>>
    /\ strategy = "all"
    /\ attachedBefore = NoOrder
    /\ note = NoNote
    /\ InitPool

\* BookingService.process_booking, every statement going through
SubmitBooking ==
    /\ last = NoCall
    /\ nCalls < MaxCalls
    /\ nCalls' = nCalls + 1
    /\ UNCHANGED <<room_types, today, probe>>
    /\ UNCHANGED recordsVars
    /\ \E d \in StayForms \cup IncompleteForms : process_booking(d, {NoFaults})

NextWorkflow == SubmitBooking \/ Return

SpecWorkflow == InitWorkflow /\ [][NextWorkflow]_vars

----------------------------------------------------------------------------
(* RecordsService *)

\* SQLite's julianday of a 'YYYY-MM-DD' text, counted from 2024-01-01
RECURSIVE DaysBeforeMonth(_)
DaysBeforeMonth(m) == IF m = 1 THEN 0 ELSE DaysBeforeMonth(m - 1) + MonthLen[m - 1]

\* Faulty variant: the day of the month alone
julianday_day_of_month(text) == text[3]

julianday(text) == DaysBeforeMonth(text[2]) + text[3] - 1

Strategies == {"all", "active", "upcoming", "completed"}

\* Faulty variant: a booking whose check-in day is today counts as upcoming
SelectedUpcomingInclusive(s, b, now) ==
    CASE s = "all" -> TRUE
      [] s = "active" -> /\ b.status = "active"
                         /\ TextLE(b.checkin_date, now) /\ TextLE(now, b.checkout_date)
      [] s = "upcoming" -> b.status = "active" /\ TextLE(now, b.checkin_date)
      [] OTHER -> b.status = "active" /\ TextLT(b.checkout_date, now)

\* Faulty variant: a booking counts as completed on its check-out day
SelectedCompletedInclusive(s, b, now) ==
    CASE s = "all" -> TRUE
      [] s = "active" -> /\ b.status = "active"
                         /\ TextLE(b.checkin_date, now) /\ TextLE(now, b.checkout_date)
      [] s = "upcoming" -> b.status = "active" /\ TextLT(now, b.checkin_date)
      [] OTHER -> b.status = "active" /\ TextLE(b.checkout_date, now)

\* The WHERE clause of a strategy; now is the text date('now') gives
Selected(s, b, now) ==
    CASE s = "all" -> TRUE
      [] s = "active" -> /\ b.status = "active"
                         /\ TextLE(b.checkin_date, now) /\ TextLE(now, b.checkout_date)
      [] s = "upcoming" -> b.status = "active" /\ TextLT(now, b.checkin_date)
      [] OTHER -> b.status = "active" /\ TextLT(b.checkout_date, now)

\* Faulty variant: the 'all' strategy labels its rows like the 'active' one
LabelAllActive(s, b) ==
    CASE s = "all" -> "Active"
      [] s = "active" -> "Active"
      [] s = "upcoming" -> "Upcoming"
      [] OTHER -> "Completed"

\* The status column of a strategy's SELECT list
Label(s, b) ==
    CASE s = "all" -> b.status
      [] s = "active" -> "Active"
      [] s = "upcoming" -> "Upcoming"
      [] OTHER -> "Completed"

\* The two JOINs: the booking's customer row and room_types row exist
Joined(rt, cu, b) ==
    /\ b.room_type \in DOMAIN rt
    /\ \E c \in 1..Len(cu) : cu[c].id = b.customer_id

\* One row of a strategy's result
RecordRow(rt, cu, s, b) ==
    LET nights == julianday(b.checkout_date) - julianday(b.checkin_date)
        price == rt[b.room_type].price
    IN  [id |-> b.id,
         name |-> cu[CHOOSE c \in 1..Len(cu) : cu[c].id = b.customer_id].name,
         room_type |-> b.room_type,
         checkin_date |-> b.checkin_date,
         checkout_date |-> b.checkout_date,
         nights |-> nights,
         price_per_night |-> price,
         room_charge |-> nights * price,
         tax |-> (nights * price * 18) \div 100,
         service_charge |-> (nights * price * 10) \div 100,
         total |-> (nights * price * 128) \div 100,
         status |-> Label(s, b)]

\* The results a strategy's query may return: the selected rows ordered by
\* check-in date, latest first; rows with the same check-in date come in
\* any order
StrategyLoad(rt, cu, bk, s, now) ==
    LET sel == {i \in 1..Len(bk) : Joined(rt, cu, bk[i]) /\ Selected(s, bk[i], now)}
        n == Cardinality(sel)
        orders == {f \in [1..n -> sel] :
                    /\ \A i, j \in 1..n : i # j => f[i] # f[j]
                    /\ \A i, j \in 1..n :
                        i < j => TextLE(bk[f[j]].checkin_date, bk[f[i]].checkin_date)}
    IN  {[i \in 1..n |-> RecordRow(rt, cu, s, bk[f[i]])] : f \in orders}

\* Python None and a list as the argument of update()
NoneValue == [is_list |-> FALSE, rows |-> <<>>]

List(rows) == [is_list |-> TRUE, rows |-> rows]

\* DatabaseService.fetch_query as strategy.load calls it: the rows, None
\* when sqlite3 raises inside the statement, or an exception
Fetched(rows, kind) ==
    CASE kind = "ok" -> [raised |-> FALSE, value |-> List(rows)]
      [] kind = "sqlerr" -> [raised |-> FALSE, value |-> NoneValue]
      [] OTHER -> [raised |-> TRUE, value |-> NoneValue]

\* Faulty variant: whatever the fetch returned is passed on
load_records_unguarded(fetched) ==
    IF fetched.raised THEN List(<<>>) ELSE fetched.value

\* RecordsService.load_records: the argument its observers are notified with
load_records(fetched) ==
    IF fetched.raised THEN List(<<>>)
    ELSE IF fetched.value.is_list /\ fetched.value.rows # <<>> THEN fetched.value
    ELSE List(<<>>)

\* The booking rows a database file may hold.  The application writes
\* the status 'active' only; status is a free TEXT column of the file, so
\* rows with another status are loaded as well.
StoredRows ==
    [id : {NoId}, customer_id : {NoId}, room_type : {"Single"},
     checkin_date : {to_string(d) : d \in (FirstDay + 1) .. (FirstDay + RecordDays)},
     checkout_date : {to_string(d) : d \in (FirstDay + 1) .. (FirstDay + RecordDays)},
     status : {"active", "cancelled"}]

BookedRows == {b \in StoredRows : TextLT(b.checkin_date, b.checkout_date)}

\* A store of up to MaxRows bookings, each with its own customer, and a
\* records window with a second listener attached to its service
InitRecords ==
    /\ room_types = [r \in {"Single", "Double"} |->
                        IF r = "Single"
                        THEN [price |-> SinglePrice, capacity |-> SingleCapacity]
                        ELSE [price |-> DoublePrice, capacity |-> DoubleCapacity]]
    /\ \E n \in 0..MaxRows : \E rows \in [1..n -> BookedRows] :
        /\ bookings = [i \in 1..n |-> [rows[i] EXCEPT !.id = i, !.customer_id = i]]
        /\ customers = [i \in 1..n |->
                            [id |-> i, name |-> "Ann", phone |-> "555", address |-> "Giza"]]
    /\ payments = <<>>
    /\ today = FirstDay
    /\ observers = <<>>
    /\ nCalls = 0
    /\ last = NoCall
    /\ probe = NoProbe
    /\ records_observers = <<"window", "listener">>
    /\ strategy = "all"
    /\ attachedBefore = [booking |-> {}, records |-> {<<"window", "listener">>}]
    /\ note = NoNote
    /\ InitPool

\* load_records with the strategy s: the note of the notification
Loaded(op, s, kind, rows) ==
    LET fetched == Fetched(rows, kind)
        records == load_records(fetched)
    IN  [op |-> op, strategy |-> s, previous |-> strategy, now |-> today, kind |-> kind,
         attached |-> records_observers,
         returned |-> TRUE,
         delivered |-> records_notify(records_observers, records)]

\* RecordsService.load_records
LoadRecords ==
    /\ note = NoNote
    /\ last = NoCall
    /\ \E kind \in Kinds :
        \E rows \in StrategyLoad(room_types, customers, bookings, strategy, to_string(today)) :
            note' = Loaded("load_records", strategy, kind, rows)
    /\ UNCHANGED <<storeVars, observers, records_observers, strategy, attachedBefore>>

\* Faulty variant: the records are loaded before the strategy is installed
SetStrategyLoadsFirst ==
    /\ note = NoNote
    /\ last = NoCall
    /\ \E s \in Strategies, kind \in Kinds :
        \E rows \in StrategyLoad(room_types, customers, bookings, strategy,
                                  to_string(today)) :
            /\ strategy' = s
            /\ note' = Loaded("set_strategy", s, kind, rows)
    /\ UNCHANGED <<storeVars, observers, records_observers, attachedBefore>>

\* RecordsService.set_strategy: installs the strategy and loads with it
SetStrategy ==
    /\ note = NoNote
    /\ last = NoCall
    /\ \E s \in Strategies, kind \in Kinds :
        \E rows \in StrategyLoad(room_types, customers, bookings, s, to_string(today)) :
            /\ strategy' = s
            /\ note' = Loaded("set_strategy", s, kind, rows)
    /\ UNCHANGED <<storeVars, observers, records_observers, attachedBefore>>

\* date('now') moves on to the next day
NextDay ==
    /\ note = NoNote
    /\ last = NoCall
    /\ today <= FirstDay + RecordDays
    /\ today' = today + 1
    /\ UNCHANGED <<room_types, customers, bookings, payments, nCalls, last, probe,
                   observers, records_observers, strategy, attachedBefore, note,
                   poolVars>>

NextRecords == LoadRecords \/ SetStrategy \/ NextDay \/ NotifyReturn

SpecRecords == InitRecords /\ [][NextRecords]_vars

----------------------------------------------------------------------------
(* RoomService.calculate_total_bill and the bill of a record row *)

\* The rows DatabaseService._create_tables inserts into room_types
SeededRoomTypes ==
    [r \in {"Single", "Double", "Suite", "Family"} |->
        [price |-> CASE r = "Single" -> SinglePrice
                     [] r = "Double" -> DoublePrice
                     [] r = "Suite" -> SuitePrice
                     [] OTHER -> FamilyPrice,
         capacity |-> SeedCapacity]]

\* The store before any booking, with the seeded room types
InitBilling ==
    /\ room_types = SeededRoomTypes
    /\ customers = <<>>
    /\ bookings = <<>>
    /\ payments = <<>>
    /\ today = FirstDay + 1
    /\ observers = <<>>
    /\ nCalls = 0
    /\ last = NoCall
    /\ probe = NoProbe
    /\ records_observers = <<>>
    /\ strategy = "all"
    /\ attachedBefore = NoOrder
    /\ note = NoNote
    /\ InitPool

BillDates == FirstDay .. (FirstDay + BillDays)

\* One call of RoomService.calculate_total_bill; the method only reads
CalculateTotalBill ==
    /\ note = NoNote
    /\ \E room_type \in DOMAIN room_types \cup {"Penthouse", SelectRoomType},
          checkin \in BillDates, checkout \in BillDates, kind \in Kinds :
        note' = [op |-> "calculate_total_bill", room_type |-> room_type,
                 checkin |-> checkin, checkout |-> checkout, kind |-> kind,
                 bill |-> calculate_total_bill(room_types, room_type, checkin,
                                               checkout, kind),
                 before |-> <<room_types, customers, bookings, payments>>]
    /\ UNCHANGED <<storeVars, observers, records_observers, strategy, attachedBefore>>

\* One row of strategy s's result: the row of a stored booking of the room
\* type and dates that the strategy's WHERE clause selects today
LoadRow ==
    /\ note = NoNote
    /\ \E s \in Strategies, room_type \in DOMAIN room_types,
          checkin \in BillDates, checkout \in BillDates :
        LET cu == <<[id |-> 1, name |-> "Ann", phone |-> "555", address |-> "Giza"]>>
            b == [id |-> 1, customer_id |-> 1, room_type |-> room_type,
                  checkin_date |-> to_string(checkin),
                  checkout_date |-> to_string(checkout), status |-> "active"]
        IN  /\ Joined(room_types, cu, b)
            /\ Selected(s, b, to_string(today))
            /\ note' = [op |-> "load", strategy |-> s, now |-> today,
                        row |-> RecordRow(room_types, cu, s, b)]
    /\ UNCHANGED <<storeVars, observers, records_observers, strategy, attachedBefore>>

NextBilling == CalculateTotalBill \/ LoadRow \/ NotifyReturn

SpecBilling == InitBilling /\ [][NextBilling]_vars

----------------------------------------------------------------------------
(* The operations of the core on one store *)

\* The forms of the bookings the records of this specification come from
CoreForms ==
    {FilledForm, [FilledForm EXCEPT !.room_type = "Double"],
     [FilledForm EXCEPT !.room_type = "Penthouse"], NoData}

\* The booking window and the records window are open, each attached to
\* its own service; the store holds the seeded room types only
InitCore ==
    /\ room_types = [r \in {"Single", "Double"} |->
                        IF r = "Single"
                        THEN [price |-> SinglePrice, capacity |-> SingleCapacity]
                        ELSE [price |-> DoublePrice, capacity |-> DoubleCapacity]]
    /\ customers = <<>>
    /\ bookings = <<>>
    /\ payments = <<>>
    /\ today = FirstDay + 1
    /\ observers = <<"window">>
    /\ nCalls = 0
    /\ last = NoCall
    /\ probe = NoProbe
    /\ records_observers = <<"window">>
    /\ strategy = "all"
    /\ attachedBefore = [booking |-> {}, records |-> {}]
    /\ note = NoNote
    /\ InitPool

\* BookingService.process_booking, every statement going through
CoreBooking ==
    /\ last = NoCall
    /\ note = NoNote
    /\ nCalls < MaxCalls
    /\ nCalls' = nCalls + 1
    /\ UNCHANGED <<room_types, today, probe>>
    /\ UNCHANGED recordsVars
    /\ \E d \in CoreForms : process_booking(d, {NoFaults})

\* RoomService.calculate_total_bill for the room type and dates of a form
CoreBill ==
    /\ last = NoCall
    /\ note = NoNote
    /\ \E d \in CoreForms \ {NoData}, kind \in Kinds :
        note' = [op |-> "calculate_total_bill", room_type |-> d.room_type,
                 checkin |-> d.checkin_date, checkout |-> d.checkout_date, kind |-> kind,
                 bill |-> calculate_total_bill(room_types, d.room_type, d.checkin_date,
                                               d.checkout_date, kind),
                 before |-> <<room_types, customers, bookings, payments>>]
    /\ UNCHANGED <<storeVars, observers, records_observers, strategy, attachedBefore>>

NextCore ==
    \/ CoreBooking \/ IsRoomAvailable \/ Return
    \/ CoreBill \/ LoadRecords \/ SetStrategy \/ NextDay \/ NotifyReturn

SpecCore == InitCore /\ [][NextCore]_vars

----------------------------------------------------------------------------
(* DatabaseService: the connection pool *)

InitConnections == Init

\* A caller enters a with-block of get_connection and stays inside
EnterWith ==
    /\ note = NoNote
    /\ Len(held) < MaxNested
    /\ LET g == get_connection(connection_pool, connections, TRUE)
       IN  /\ g.connection <= MaxConnections
           /\ connection_pool' = g.pool
           /\ connections' = g.connections
           /\ held' = Append(held, g.connection)
    /\ UNCHANGED <<room_types, customers, bookings, payments, today, nCalls, last, probe,
                   observers, records_observers, strategy, attachedBefore, note>>

\* The innermost with-block ends, normally or by an exception
ExitWith ==
    /\ note = NoNote
    /\ held # <<>>
    /\ \E kind \in {"ok", "raise"} :
        LET c == held[Len(held)]
            x == get_connection_exit(connection_pool, connections, c, kind)
        IN  /\ connection_pool' = x.pool
            /\ connections' = x.connections
            /\ held' = SubSeq(held, 1, Len(held) - 1)
            /\ note' = [op |-> "with", kind |-> kind, connection |-> c]
    /\ UNCHANGED <<room_types, customers, bookings, payments, today, nCalls, last, probe,
                   observers, records_observers, strategy, attachedBefore>>

\* The with-block of execute_query, fetch_query and fetch_one: the
\* connection is acquired, the statement runs (kind) and the block is left
with_get_connection(op, kind, connects) ==
    LET g == get_connection(connection_pool, connections, connects)
        x == get_connection_exit(g.pool, g.connections, g.connection, kind)
    IN  IF g.connection = NoId
        THEN [pool |-> connection_pool, connections |-> connections,
              note |-> [op |-> op, kind |-> "raise", connection |-> NoId]]
        ELSE [pool |-> x.pool, connections |-> x.connections,
              note |-> [op |-> op, kind |-> kind, connection |-> g.connection]]

\* DatabaseService.execute_query
ExecuteQuery ==
    /\ note = NoNote
    /\ \E kind \in Kinds, connects \in BOOLEAN :
        LET r == with_get_connection("execute_query", kind, connects)
        IN  /\ r.note.connection <= MaxConnections
            /\ connection_pool' = r.pool
            /\ connections' = r.connections
            /\ note' = r.note
    /\ UNCHANGED <<room_types, customers, bookings, payments, today, nCalls, last, probe,
                   observers, records_observers, strategy, attachedBefore, held>>

\* DatabaseService.fetch_query
FetchQuery ==
    /\ note = NoNote
    /\ \E kind \in Kinds, connects \in BOOLEAN :
        LET r == with_get_connection("fetch_query", kind, connects)
        IN  /\ r.note.connection <= MaxConnections
            /\ connection_pool' = r.pool
            /\ connections' = r.connections
            /\ note' = r.note
    /\ UNCHANGED <<room_types, customers, bookings, payments, today, nCalls, last, probe,
                   observers, records_observers, strategy, attachedBefore, held>>

\* DatabaseService.fetch_one
FetchOne ==
    /\ note = NoNote
    /\ \E kind \in Kinds, connects \in BOOLEAN :
        LET r == with_get_connection("fetch_one", kind, connects)
        IN  /\ r.note.connection <= MaxConnections
            /\ connection_pool' = r.pool
            /\ connections' = r.connections
            /\ note' = r.note
    /\ UNCHANGED <<room_types, customers, bookings, payments, today, nCalls, last, probe,
                   observers, records_observers, strategy, attachedBefore, held>>

NextConnections ==
    \/ EnterWith \/ ExitWith \/ ExecuteQuery \/ FetchQuery \/ FetchOne \/ NotifyReturn

SpecConnections == InitConnections /\ [][NextConnections]_vars

----------------------------------------------------------------------------
(* Properties *)

\* The rows of the bookings table as they were when the last call started
Existing == 1..last.before.bookings

\* A stored booking and a date range share at least one night
SharesNight(b, checkin, checkout) ==
    \E n \in Days :
        /\ parse_date(b.checkin_date) <= n /\ n < parse_date(b.checkout_date)
        /\ checkin <= n /\ n < checkout

AllWritten(c) ==
    c.writes.customer = "ok" /\ c.writes.booking = "ok" /\ c.writes.payment = "ok"

MissingField(d) ==
    \/ d.name = "" \/ d.phone = "" \/ d.address = "" \/ d.room_type = ""
    \/ d.checkin_date = NoDate \/ d.checkout_date = NoDate

\* C1: is_room_available returns true exactly when the dates validate, the
\* room type has a row in room_types and fewer active bookings of that type
\* share a night with the requested range than the type's capacity; it
\* never returns true otherwise, and it returns true in that case whenever
\* its two lookups go through.
C1_AvailableIffFreeCapacity ==
    last.checked =>
        LET d == last.data
            free == /\ validate_dates(d.checkin_date, d.checkout_date, last.now) = ""
                    /\ d.room_type \in DOMAIN room_types
                    /\ Cardinality({i \in Existing :
                            /\ bookings[i].room_type = d.room_type
                            /\ bookings[i].status = "active"
                            /\ SharesNight(bookings[i], d.checkin_date, d.checkout_date)})
                         < room_types[d.room_type].capacity
        IN  /\ last.available => free
            /\ (free /\ last.reads # "failed") => last.available

C1_Witness ==
    /\ last.op = "is_room_available"
    /\ last.reads = "ok"
    /\ ~last.available
    /\ Cardinality(last.counted) = room_types[last.data.room_type].capacity

\* C2: for every room type and every night, the active bookings of that
\* type whose range [checkin, checkout) contains the night never outnumber
\* the type's capacity.
C2_CapacityNeverExceeded ==
    LET first == [i \in 1..Len(bookings) |-> parse_date(bookings[i].checkin_date)]
        after == [i \in 1..Len(bookings) |-> parse_date(bookings[i].checkout_date)]
    IN  \A r \in DOMAIN room_types : \A n \in Days :
            Cardinality({i \in 1..Len(bookings) :
                /\ bookings[i].room_type = r
                /\ bookings[i].status = "active"
                /\ first[i] <= n
                /\ n < after[i]}) <= room_types[r].capacity

C2_Witness ==
    /\ Len(bookings) >= 1
    /\ \E r \in DOMAIN room_types : \E n \in Days :
        Cardinality({i \in 1..Len(bookings) :
            /\ bookings[i].room_type = r
            /\ bookings[i].status = "active"
            /\ parse_date(bookings[i].checkin_date) <= n
            /\ n < parse_date(bookings[i].checkout_date)}) = room_types[r].capacity

\* C3: an active booking of the requested type whose checkout date is the
\* requested check-in date is not among the rows the overlap query counts.
C3_CheckoutTouchingNotCounted ==
    last.reads = "ok" =>
        \A i \in Existing :
            (/\ bookings[i].room_type = last.data.room_type
             /\ bookings[i].status = "active"
             /\ parse_date(bookings[i].checkout_date) = last.data.checkin_date)
            => i \notin last.counted

C3_Witness ==
    /\ last.reads = "ok"
    /\ last.available
    /\ \E i \in Existing :
        /\ bookings[i].room_type = last.data.room_type
        /\ bookings[i].status = "active"
        /\ parse_date(bookings[i].checkout_date) = last.data.checkin_date
    /\ last.counted = {}

\* C4 as stated: of the two touching configurations one is non-overlapping
\* and the other overlapping.  With the stored range starting where the
\* requested one ends, overlaps is the verdict on that configuration and
\* swapped (the two ranges exchanged) the verdict on the other.
C4_TouchingAsymmetric ==
    (probe.evaluated /\ probe.existing[1] = probe.requested[2])
        => probe.overlaps # probe.swapped

\* C4 as amended: for ranges with checkout after check-in the predicate
\* counts neither touching configuration as overlapping.
C4_TouchingNeverOverlaps ==
    (/\ probe.evaluated
     /\ \/ probe.existing[1] = probe.requested[2]
        \/ probe.existing[2] = probe.requested[1])
        => ~probe.overlaps

C4_Witness ==
    /\ probe.evaluated
    /\ probe.existing[1] = probe.requested[2]
    /\ ~probe.overlaps
    /\ ~probe.swapped

\* The request of call c is one process_booking rejects
RejectedRequest(c) ==
    \/ MissingField(c.data)
    \/ c.data.room_type = SelectRoomType
    \/ validate_dates(c.data.checkin_date, c.data.checkout_date, c.now) # ""
    \/ c.checked /\ ~c.available

\* C5: a process_booking call that rejects its request (missing field,
\* sentinel room type, invalid dates, room unavailable) leaves every table
\* as it was and delivers on_booking_error to each attached observer.
C5_RejectionWritesNothing ==
    [][(last.op = "none" /\ last'.op = "process_booking" /\ RejectedRequest(last'))
        => /\ room_types' = room_types
           /\ customers' = customers
           /\ bookings' = bookings
           /\ payments' = payments
           /\ last'.outcome = "error"
           /\ last'.message # ""
           /\ last'.delivered =
                [i \in 1..Len(observers) |->
                    <<observers[i], "on_booking_error", last'.message>>]]_vars

C5_Witness ==
    /\ last.op = "process_booking"
    /\ last.checked
    /\ ~last.available
    /\ last.reads = "ok"
    /\ last.outcome = "error"
    /\ Len(last.delivered) = 1

\* C6: when one of the three inserts of step 4 fails, the observers receive
\* on_booking_error and no on_booking_success.
C6_WriteFailureNotifiesError ==
    (/\ last.op = "process_booking"
     /\ \E w \in {"customer", "booking", "payment"} : last.writes[w] \in {"sqlerr", "raise"})
    => /\ last.outcome = "error"
       /\ \A k \in 1..Len(last.delivered) : last.delivered[k][2] = "on_booking_error"

\* C7: a request whose room type is the sentinel and whose dates do not
\* validate is answered with the room-type error.
C7_SentinelBeforeDates ==
    (/\ last.op = "process_booking"
     /\ last.data.name # "" /\ last.data.phone # "" /\ last.data.address # ""
     /\ last.data.room_type = SelectRoomType
     /\ last.data.checkin_date # NoDate /\ last.data.checkout_date # NoDate
     /\ validate_dates(last.data.checkin_date, last.data.checkout_date, last.now) # "")
    => last.message = "Please select a room type!"

\* C8: a process_booking call whose three inserts all run adds exactly one
\* customer row, one booking row (the new customer's id, status 'active',
\* the requested room type and dates) and one payment row (the new
\* booking's id, status 'pending', amount 128% of price times nights).
C8_SuccessfulBookingRows ==
    [][(last.op = "none" /\ last'.op = "process_booking" /\ AllWritten(last'))
        => LET d == last'.data
               cid == Len(customers) + 1
               bid == Len(bookings) + 1
               pid == Len(payments) + 1
           IN  /\ Len(customers') = cid
               /\ customers' = Append(customers, customers'[cid])
               /\ customers'[cid] = [id |-> cid, name |-> d.name, phone |-> d.phone,
                                     address |-> d.address]
               /\ Len(bookings') = bid
               /\ bookings' = Append(bookings, bookings'[bid])
               /\ bookings'[bid].id = bid
               /\ bookings'[bid].customer_id = cid
               /\ bookings'[bid].status = "active"
               /\ bookings'[bid].room_type = d.room_type
               /\ parse_date(bookings'[bid].checkin_date) = d.checkin_date
               /\ parse_date(bookings'[bid].checkout_date) = d.checkout_date
               /\ Len(payments') = pid
               /\ payments' = Append(payments, payments'[pid])
               /\ payments'[pid].id = pid
               /\ payments'[pid].booking_id = bid
               /\ payments'[pid].status = "pending"
               /\ payments'[pid].amount * 100 =
                    room_types[d.room_type].price
                        * (d.checkout_date - d.checkin_date) * 128]_vars

C8_Witness ==
    /\ last.op = "process_booking"
    /\ AllWritten(last)
    /\ last.outcome = "success"
    /\ last.data.checkout_date - last.data.checkin_date = 2

\* C9: when the customer insert runs and the booking insert then fails, the
\* customer row stays in the store and no booking refers to it.
C9_OrphanCustomerRemains ==
    (/\ last.op = "process_booking"
     /\ last.writes.customer = "ok"
     /\ last.writes.booking \in {"sqlerr", "raise"})
    => /\ Len(customers) = last.before.customers + 1
       /\ customers[Len(customers)] =
            [id |-> Len(customers), name |-> last.data.name,
             phone |-> last.data.phone, address |-> last.data.address]
       /\ Len(bookings) = last.before.bookings
       /\ \A i \in 1..Len(bookings) : bookings[i].customer_id # Len(customers)

C9_Witness ==
    /\ last.op = "process_booking"
    /\ last.writes.customer = "ok"
    /\ last.writes.booking = "sqlerr"
    /\ Len(customers) > Len(bookings)

\* Booking row k was written by an earlier, complete submission of the
\* request of the last call
SameRequest(k) ==
    /\ bookings[k].room_type = last.data.room_type
    /\ parse_date(bookings[k].checkin_date) = last.data.checkin_date
    /\ parse_date(bookings[k].checkout_date) = last.data.checkout_date
    /\ bookings[k].customer_id \in 1..last.before.customers
    /\ customers[bookings[k].customer_id].name = last.data.name
    /\ customers[bookings[k].customer_id].phone = last.data.phone
    /\ customers[bookings[k].customer_id].address = last.data.address
    /\ \E p \in 1..last.before.payments : payments[p].booking_id = k

\* C10: a request submitted again after a complete submission of the same
\* request, and written in full again, adds a second customer row, a second
\* booking row and a second payment row, each distinct from the first.
C10_ResubmissionDuplicates ==
    (last.op = "process_booking" /\ AllWritten(last)) =>
        \A k \in Existing :
            SameRequest(k) =>
                /\ Len(customers) = last.before.customers + 1
                /\ Len(bookings) = last.before.bookings + 1
                /\ Len(payments) = last.before.payments + 1
                /\ last.booking_id = Len(bookings)
                /\ last.customer_id = Len(customers)
                /\ bookings[Len(bookings)].customer_id # bookings[k].customer_id
                /\ [customers[Len(customers)] EXCEPT !.id = NoId]
                     = [customers[bookings[k].customer_id] EXCEPT !.id = NoId]
                /\ payments[Len(payments)].booking_id = Len(bookings)
                /\ \E p \in 1..last.before.payments :
                        /\ payments[p].booking_id = k
                        /\ payments[p].amount = payments[Len(payments)].amount

C10_Witness ==
    /\ last.op = "process_booking"
    /\ AllWritten(last)
    /\ last.outcome = "success"
    /\ \E k \in Existing : SameRequest(k)

\* C11: in both services the observers that receive a notification receive
\* it in the order in which they were attached, whatever attach and detach
\* calls came before; when no observer leaves the list during the
\* notification these are all the attached observers.
C11_NotifiedInAttachOrder ==
    note.op = "notify" =>
        /\ \A i, j \in 1..Len(note.delivered) :
                i < j => <<note.delivered[i][1], note.delivered[j][1]>> \in note.before
        /\ \A i \in 1..Len(note.delivered) : note.delivered[i][1] \in Attached(note.attached)
        /\ (~(note.callback = "on_booking_success"
               /\ \E o \in Attached(note.attached) : DetachesOnSuccess(o)))
            => [i \in 1..Len(note.delivered) |-> note.delivered[i][1]] = note.attached

C11_Witness ==
    /\ note.op = "notify"
    /\ note.service = "records"
    /\ note.attached = <<"logger", "window", "listener">>
    /\ Len(note.delivered) = 3

\* C12: validate_dates succeeds exactly when both dates are there, the
\* check-in day is today or later, the check-out day is after the check-in
\* day and the stay is at most 30 days long.
C12_ValidIffRules ==
    note.op = "validate_dates" =>
        (note.message = ""
            <=> /\ note.checkin # NoDate /\ note.checkout # NoDate
                /\ note.checkin >= note.now
                /\ note.checkout > note.checkin
                /\ note.checkout - note.checkin <= 30)

C12_Witness ==
    /\ note.op = "validate_dates"
    /\ note.checkin # NoDate
    /\ note.checkin >= note.now
    /\ note.checkout - note.checkin = 30
    /\ note.message = ""

\* C13: with both dates there, the rules are tried in the order past
\* check-in, check-out not after check-in, stay too long, and the message is
\* that of the first rule that fails; a check-in day before today gives the
\* past-check-in message whatever the check-out is.
C13_FirstFailingRule ==
    note.op = "validate_dates" /\ note.checkin # NoDate =>
        /\ note.checkin < note.now
                => note.message = "Check-in date cannot be in the past"
        /\ note.checkout # NoDate =>
            /\ (note.checkin >= note.now /\ note.checkout <= note.checkin)
                    <=> note.message = "Check-out date must be after check-in date"
            /\ (note.checkin >= note.now /\ note.checkout > note.checkin
                    /\ note.checkout - note.checkin > 30)
                    <=> note.message = "Maximum stay is 30 days"

C13_Witness ==
    /\ note.op = "validate_dates"
    /\ note.checkin # NoDate /\ note.checkout # NoDate
    /\ note.checkin < note.now
    /\ note.checkout <= note.checkin
    /\ note.message = "Check-in date cannot be in the past"

C15_BillBreakdown ==
    (note.op = "calculate_total_bill" /\ note.room_type \in DOMAIN room_types
        /\ note.kind = "ok") =>
        LET b == note.bill
            p == room_types[note.room_type].price
            n == note.checkout - note.checkin
        IN  /\ ~b.raised
            /\ b.price_per_night = p
            /\ b.nights = n
            /\ b.room_charge = p * n
            /\ 100 * b.tax = 18 * b.room_charge
            /\ 100 * b.service_charge = 10 * b.room_charge
            /\ b.total = b.room_charge + b.tax + b.service_charge
            /\ 100 * b.total = 128 * b.room_charge
            /\ note.before = <<room_types, customers, bookings, payments>>

C15_Witness ==
    /\ note.op = "calculate_total_bill"
    /\ note.room_type = "Single"
    /\ note.checkout - note.checkin = 3
    /\ ~note.bill.raised
    /\ note.bill.room_charge = 300
    /\ note.bill.tax = 54
    /\ note.bill.service_charge = 30
    /\ note.bill.total = 384

\* C16: calculate_total_bill raises, and returns no breakdown, when the
\* room type has no row in room_types or the price lookup fails.
C16_UnknownRoomTypeRaises ==
    (note.op = "calculate_total_bill"
        /\ (note.room_type \notin DOMAIN room_types \/ note.kind # "ok"))
        => note.bill.raised

C16_Witness ==
    /\ note.op = "calculate_total_bill"
    /\ note.room_type = "Penthouse"
    /\ note.kind = "ok"
    /\ note.bill.raised

\* C17: is_room_available returns false when the room type has no row,
\* when the capacity lookup or the overlap count fails and when the dates
\* are absent or do not validate, and a call of it leaves the four tables
\* as they were.
C17_AvailabilityFailsClosed ==
    [][(last.op = "none" /\ last'.op = "is_room_available")
        => /\ last'.available \in BOOLEAN
           /\ last'.reads # "ok" => ~last'.available
           /\ last'.data.room_type \notin DOMAIN room_types => ~last'.available
           /\ (last'.data.checkin_date = NoDate \/ last'.data.checkout_date = NoDate)
                => ~last'.available
           /\ room_types' = room_types
           /\ customers' = customers
           /\ bookings' = bookings
           /\ payments' = payments]_vars

C17_Witness ==
    /\ last.op = "is_room_available"
    /\ last.reads = "failed"
    /\ last.data.room_type \in DOMAIN room_types
    /\ validate_dates(last.data.checkin_date, last.data.checkout_date, last.now) = ""
    /\ OverlappingBookings(bookings, last.data.room_type,
                           to_string(last.data.checkin_date),
                           to_string(last.data.checkout_date)) = {}
    /\ ~last.available

\* The rows the observers of the last load were notified with, the ids of
\* these rows and the stored booking with a given id
NotifiedRows == note.delivered[1][3].rows

NotifiedIds == {NotifiedRows[i].id : i \in 1..Len(NotifiedRows)}

Stored(id) == bookings[CHOOSE i \in 1..Len(bookings) : bookings[i].id = id]

LoadedWith(s) ==
    /\ note.op \in {"load_records", "set_strategy"}
    /\ note.strategy = s
    /\ note.kind = "ok"

\* C18: a load with the 'upcoming' strategy notifies every observer with
\* exactly the bookings of status 'active' whose check-in day is after
\* today, once each and labelled 'Upcoming'.
C18_UpcomingFilter ==
    LoadedWith("upcoming") =>
        /\ \A k \in 1..Len(note.delivered) : note.delivered[k][3] = List(NotifiedRows)
        /\ NotifiedIds = {bookings[i].id : i \in
                {i \in 1..Len(bookings) :
                    /\ bookings[i].status = "active"
                    /\ julianday(bookings[i].checkin_date) > note.now}}
        /\ Cardinality(NotifiedIds) = Len(NotifiedRows)
        /\ \A i \in 1..Len(NotifiedRows) :
            /\ NotifiedRows[i].status = "Upcoming"
            /\ julianday(NotifiedRows[i].checkin_date) > note.now

C18_Witness ==
    /\ LoadedWith("upcoming")
    /\ Len(NotifiedRows) = 1
    /\ Len(bookings) = 2

\* C19: a load with the 'all' strategy notifies with every booking row of
\* the store, each labelled with its stored status; a load with one of the
\* other strategies never includes a booking whose stored status is not
\* 'active'.
C19_AllFilterAndActiveOnly ==
    /\ LoadedWith("all") =>
        /\ NotifiedIds = {bookings[i].id : i \in 1..Len(bookings)}
        /\ Cardinality(NotifiedIds) = Len(NotifiedRows)
        /\ \A i \in 1..Len(NotifiedRows) :
                NotifiedRows[i].status = Stored(NotifiedRows[i].id).status
    /\ \A s \in {"active", "upcoming", "completed"} :
        LoadedWith(s) =>
            \A i \in 1..Len(NotifiedRows) : Stored(NotifiedRows[i].id).status = "active"

C19_Witness ==
    /\ LoadedWith("all")
    /\ Len(NotifiedRows) = 2
    /\ \E i \in 1..2 : NotifiedRows[i].status = "cancelled"
    /\ \E i \in 1..2 : NotifiedRows[i].status = "active"

\* C20: when the fetch of a load fails, by an error inside the statement
\* or by an exception, every attached observer is notified with the empty
\* list and the call returns.
C20_FailedLoadNotifiesEmptyList ==
    (note.op \in {"load_records", "set_strategy"} /\ note.kind # "ok") =>
        /\ note.returned
        /\ note.delivered =
            [i \in 1..Len(note.attached) |-> <<note.attached[i], "update", List(<<>>)>>]

C20_Witness ==
    /\ note.op = "load_records"
    /\ note.kind = "sqlerr"
    /\ note.strategy = "all"
    /\ Len(bookings) >= 1
    /\ Len(note.delivered) = 2

\* C21: a row a records strategy returns carries, as nights, price per
\* night, room charge, tax, service charge and total, the values
\* calculate_total_bill returns for the row's room type and its two dates
\* at the price room_types holds.
C21_RowEnrichmentEqualsBill ==
    note.op = "load" =>
        LET row == note.row
            checkin == CHOOSE d \in BillDates : to_string(d) = row.checkin_date
            checkout == CHOOSE d \in BillDates : to_string(d) = row.checkout_date
            bill == calculate_total_bill(room_types, row.room_type, checkin, checkout, "ok")
        IN  /\ ~bill.raised
            /\ row.nights = bill.nights
            /\ row.price_per_night = bill.price_per_night
            /\ row.room_charge = bill.room_charge
            /\ row.tax = bill.tax
            /\ row.service_charge = bill.service_charge
            /\ row.total = bill.total

C21_Witness ==
    /\ note.op = "load"
    /\ note.strategy = "active"
    /\ note.row.room_type = "Suite"
    /\ note.row.checkin_date = <<2024, 1, 31>>
    /\ note.row.checkout_date = <<2024, 2, 2>>
    /\ note.row.nights = 2
    /\ note.row.room_charge = 500
    /\ note.row.tax = 90
    /\ note.row.service_charge = 50
    /\ note.row.total = 640

\* C22: every row of the bookings table has its check-out date after its
\* check-in date and at most 30 days after it, whatever forms were
\* submitted to process_booking.
C22_StoredStayWithinLimits ==
    \A i \in 1..Len(bookings) :
        LET nights == julianday(bookings[i].checkout_date)
                        - julianday(bookings[i].checkin_date)
        IN  /\ TextLT(bookings[i].checkin_date, bookings[i].checkout_date)
            /\ nights >= 1
            /\ nights <= MaxStayDays

C22_Witness ==
    /\ last.op = "process_booking"
    /\ last.outcome = "success"
    /\ last.data.checkout_date - last.data.checkin_date = MaxStayDays
    /\ \E i \in 1..Len(bookings) :
        julianday(bookings[i].checkout_date) - julianday(bookings[i].checkin_date)
            = MaxStayDays

\* C25: a process_booking call delivers exactly one callback to each
\* observer that was attached when it started, and the callbacks of one
\* call are all on_booking_success or all on_booking_error.
C25_OneCallbackPerObserver ==
    last.op = "process_booking" =>
        /\ \A o \in Attached(last.attached) :
                Cardinality({i \in 1..Len(last.delivered) : last.delivered[i][1] = o}) = 1
        /\ \A i, j \in 1..Len(last.delivered) :
                last.delivered[i][2] = last.delivered[j][2]

\* C26: a notification is delivered exactly once to every observer that
\* was attached when it started, an observer that detaches itself in its
\* callback included.
C26_EveryAttachedNotifiedOnce ==
    note.op = "notify" =>
        \A o \in Attached(note.attached) :
            Cardinality({i \in 1..Len(note.delivered) : note.delivered[i][1] = o}) = 1

\* C23: no operation of the core changes or removes a row that is in the
\* store: after every step the rows of customers, bookings, payments and
\* room_types that were there are there unchanged, every booking has the
\* status 'active' and every payment the status 'pending'.
C23_RowsNeverModified ==
    [][/\ room_types' = room_types
       /\ Len(customers') >= Len(customers)
       /\ Len(bookings') >= Len(bookings)
       /\ Len(payments') >= Len(payments)
       /\ \A i \in 1..Len(customers) : customers'[i] = customers[i]
       /\ \A i \in 1..Len(bookings) : bookings'[i] = bookings[i]
       /\ \A i \in 1..Len(payments) : payments'[i] = payments[i]
       /\ \A i \in 1..Len(bookings') : bookings'[i].status = "active"
       /\ \A i \in 1..Len(payments') : payments'[i].status = "pending"]_vars

C23_Witness ==
    /\ Len(bookings) = 2
    /\ Len(payments) = 2
    /\ bookings[1].room_type = "Single"
    /\ bookings[2].room_type = "Double"
    /\ strategy = "active"
    /\ note.op = "set_strategy"
    /\ Len(note.delivered) = 1
    /\ Len(note.delivered[1][3].rows) = 2

\* C29: in every state each payment row refers to a booking row that is in
\* the store, and each booking row to a customer row that is in the store
\* and to a room type that has a row in room_types, whichever statements
\* of process_booking fail.
C29_ReferentialIntegrity ==
    /\ \A p \in 1..Len(payments) :
            \E b \in 1..Len(bookings) : bookings[b].id = payments[p].booking_id
    /\ \A b \in 1..Len(bookings) :
            /\ \E c \in 1..Len(customers) : customers[c].id = bookings[b].customer_id
            /\ bookings[b].room_type \in DOMAIN room_types

C29_Witness ==
    /\ last.op = "process_booking"
    /\ last.writes.customer = "sqlerr"
    /\ last.writes.booking = "sqlerr"
    /\ last.writes.payment = "sqlerr"
    /\ Len(bookings) = 1
    /\ Len(payments) = 1

\* C30: for a stored and a requested range, each with checkout after
\* check-in, the three-clause predicate holds exactly when
\* existing.checkin < requested.checkout and existing.checkout >
\* requested.checkin, which is when some night belongs to both ranges, and
\* exchanging the two ranges does not change its value.
C30_OverlapIsHalfOpenTest ==
    probe.evaluated =>
        LET e == probe.existing
            r == probe.requested
        IN  /\ probe.overlaps <=> (e[1] < r[2] /\ e[2] > r[1])
            /\ probe.overlaps <=>
                    \E n \in FirstDay .. (FirstDay + ProbeDays - 1) :
                        /\ e[1] <= n /\ n < e[2]
                        /\ r[1] <= n /\ n < r[2]
            /\ probe.overlaps <=> probe.swapped

C30_Witness ==
    /\ probe.evaluated
    /\ probe.requested[1] < probe.existing[1]
    /\ probe.existing[2] < probe.requested[2]
    /\ probe.overlaps
    /\ probe.swapped

\* Where day now lies relative to the stay of booking b
Phase(b, now) ==
    IF now < julianday(b.checkin_date) THEN "upcoming"
    ELSE IF now <= julianday(b.checkout_date) THEN "active"
    ELSE "completed"

PhaseRank(s) == CASE s = "upcoming" -> 0 [] s = "active" -> 1 [] OTHER -> 2

PhaseLabel(s) ==
    CASE s = "upcoming" -> "Upcoming" [] s = "active" -> "Active" [] OTHER -> "Completed"

\* The strategies, of the three that look at today, whose query returns b
Returning(b, now) ==
    {s \in {"active", "upcoming", "completed"} : Selected(s, b, to_string(now))}

\* On the day of the state each booking of status 'active' is returned
\* by the one strategy of its phase, and a load that went through holds
\* exactly the bookings of its strategy's phase under that label
OnePhasePerBooking ==
    /\ \A i \in 1..Len(bookings) :
            (bookings[i].status = "active"
                /\ TextLE(bookings[i].checkin_date, bookings[i].checkout_date))
            => Returning(bookings[i], today) = {Phase(bookings[i], today)}
    /\ \A s \in {"active", "upcoming", "completed"} :
            LoadedWith(s) =>
                /\ NotifiedIds = {bookings[i].id : i \in
                        {i \in 1..Len(bookings) :
                            /\ bookings[i].status = "active"
                            /\ Phase(bookings[i], note.now) = s}}
                /\ Cardinality(NotifiedIds) = Len(NotifiedRows)
                /\ \A i \in 1..Len(NotifiedRows) : NotifiedRows[i].status = PhaseLabel(s)

\* C27: on every day a booking of status 'active' with check-in not after
\* check-out is returned by exactly one of the 'active' (checkin <= today
\* <= checkout), 'upcoming' (today < checkin) and 'completed' (today >
\* checkout) strategies, and when the day moves on the strategy that
\* returns it stays the same or moves from upcoming to active to completed.
C27_ExactlyOneFilterInOrder ==
    [][/\ OnePhasePerBooking
       /\ OnePhasePerBooking'
       /\ \A i \in 1..Len(bookings) :
            PhaseRank(Phase(bookings[i], today')) >= PhaseRank(Phase(bookings[i], today))]_vars

C27_Witness ==
    /\ LoadedWith("completed")
    /\ Len(bookings) = 2
    /\ Len(NotifiedRows) = 1
    /\ NotifiedRows[1].status = "Completed"
    /\ julianday(NotifiedRows[1].checkout_date) < today

\* The bookings strategy s selects on day now
SelectedIds(s, now) ==
    {bookings[i].id : i \in
        {i \in 1..Len(bookings) :
            \/ s = "all"
            \/ bookings[i].status = "active" /\ Phase(bookings[i], now) = s}}

\* C28: set_strategy(s) leaves s installed and notifies each attached
\* observer once, in one update call each, with the records s selects
\* (the empty list when the fetch fails), whatever strategy was installed
\* before.
C28_SetStrategyLoadsWithNewStrategy ==
    note.op = "set_strategy" =>
        /\ strategy = note.strategy
        /\ note.returned
        /\ note.delivered =
            [i \in 1..Len(note.attached) |-> <<note.attached[i], "update", List(NotifiedRows)>>]
        /\ NotifiedIds = (IF note.kind = "ok" THEN SelectedIds(note.strategy, note.now) ELSE {})
        /\ Cardinality(NotifiedIds) = Len(NotifiedRows)
        /\ \A i \in 1..Len(NotifiedRows) :
                NotifiedRows[i].status =
                    (IF note.strategy = "all" THEN Stored(NotifiedRows[i].id).status
                     ELSE PhaseLabel(note.strategy))

C28_Witness ==
    /\ note.op = "set_strategy"
    /\ note.previous = "all"
    /\ note.strategy = "upcoming"
    /\ note.kind = "ok"
    /\ Len(bookings) = 2
    /\ Len(note.delivered) = 2
    /\ Len(NotifiedRows) = 1
    /\ SelectedIds("all", note.now) # SelectedIds("upcoming", note.now)

\* The connections of the pool
Pooled == {connection_pool[i] : i \in 1..Len(connection_pool)}

\* C24: after a call of execute_query, fetch_query or fetch_one, however
\* it ended, the connection it acquired is in the pool or closed and is not
\* held by the call; the pool never holds more than MAX_POOL_SIZE
\* connections, never the same connection twice, never a closed one and
\* never one a with-block is using.
C24_ConnectionAlwaysReleased ==
    /\ (note.op \in {"execute_query", "fetch_query", "fetch_one"}
            /\ note.connection # NoId)
        => /\ note.connection \in Pooled \/ connections[note.connection] = "closed"
           /\ \A i \in 1..Len(held) : held[i] # note.connection
    /\ Len(connection_pool) <= MAX_POOL_SIZE
    /\ Cardinality(Pooled) = Len(connection_pool)
    /\ \A c \in Pooled :
        /\ c \in 1..Len(connections)
        /\ connections[c] = "open"
        /\ \A i \in 1..Len(held) : held[i] # c
    /\ \A i \in 1..Len(held) : connections[held[i]] = "open"

C24_Witness ==
    /\ note.op = "fetch_query"
    /\ note.kind = "raise"
    /\ note.connection # NoId
    /\ connections[note.connection] = "closed"
    /\ Len(connection_pool) = MAX_POOL_SIZE - 1
    /\ \E c \in 1..Len(connections) : c # note.connection /\ connections[c] = "closed"
    /\ held = <<>>

=============================================================================
